---- MODULE Spec2Model ----
(***************************************************************************)
(* SpendGuard invoice text interpretation engine (src/app.py).             *)
(*                                                                         *)
(* Text is a sequence of one-character strings.  Amounts are exact         *)
(* decimals: parse_number yields <<mantissa, scale>> (mantissa / 10^scale, *)
(* trailing zeros removed); extract_total_amount holds its result in       *)
(* thousandths, which is exact for every number its patterns can isolate   *)
(* (at most three fractional digits); savings are held in cents.           *)
(***************************************************************************)
EXTENDS Integers, Sequences, FiniteSets, TLC

VARIABLES
    raw_text,   \* the document text / the argument of the function under check
    num,        \* parse_number's return value <<mantissa, scale>>
    detected,   \* detect_vendor's return value
    vendor,     \* normalize_vendor's argument, then its return value
    prev,       \* the value vendor had before the latest normalize_vendor call
    currency,   \* detect_currency's return value
    total,      \* extract_total_amount's return value, in thousandths
    savings,    \* preview's savings, in cents
    pc,         \* position in the computation
    reports,    \* state.json "reports": doc_id -> <<record>>, <<>> when absent
    paid,       \* state.json "paid": doc_id -> <<ts, payment_intent>>, <<>> when absent
    intents,    \* Stripe's payment intents: id -> <<doc_id, status, created, succeeded at>>
    now,        \* int(time.time()), in days
    resp,       \* the latest response: <<endpoint, doc_id, kind, body>>
    proc        \* the threads inside set_report / mark_paid

extraction_vars == <<raw_text, num, detected, vendor, prev, currency, total, savings, pc>>

store_vars == <<reports, paid, intents, now, resp, proc>>

vars == <<raw_text, num, detected, vendor, prev, currency, total, savings, pc,
          reports, paid, intents, now, resp, proc>>

\* the document and payment-intent identifiers of the model
DocIds == {"A", "B"}
IntentIds == {"pi_1"}

\* _default_state(): {"reports": {}, "paid": {}}, no payment intent, no
\* request served and no thread in the store
StoreIdle ==
    /\ reports = [d \in DocIds |-> <<>>]
    /\ paid = [d \in DocIds |-> <<>>]
    /\ intents = [i \in IntentIds |-> <<>>]
    /\ now = 1
    /\ resp = <<>>
    /\ proc = <<>>

\* preview computes vendor, currency, total and savings in this order
VendorDone == pc \in {"currency", "total", "savings", "saved"}
CurrencyDone == pc \in {"total", "savings", "saved"}
TotalDone == pc \in {"savings", "saved"}

(***************************************************************************)
(* Characters and the str methods the code uses.                           *)
(***************************************************************************)
NBSP == "nbsp"

UpperChars ==
    <<"A","B","C","D","E","F","G","H","I","J","K","L","M","N","O","P","Q","R",
      "S","T","U","V","W","X","Y","Z","É","À">>

LowerChars ==
    <<"a","b","c","d","e","f","g","h","i","j","k","l","m","n","o","p","q","r",
      "s","t","u","v","w","x","y","z","é","à">>

DigitChars == <<"0","1","2","3","4","5","6","7","8","9">>

Range(f) == {f[i] : i \in DOMAIN f}

IsUpper(c) == c \in Range(UpperChars)
IsLower(c) == c \in Range(LowerChars)
IsAlpha(c) == IsUpper(c) \/ IsLower(c)
IsDigit(c) == c \in Range(DigitChars)
\* str.strip / \s whitespace
IsSpace(c) == c \in {" ", "\n", "\t", NBSP}

IndexIn(c, tbl) == CHOOSE i \in DOMAIN tbl : tbl[i] = c
LowerChar(c) == IF IsUpper(c) THEN LowerChars[IndexIn(c, UpperChars)] ELSE c
UpperChar(c) == IF IsLower(c) THEN UpperChars[IndexIn(c, LowerChars)] ELSE c
DigitVal(c) == IndexIn(c, DigitChars) - 1

\* str.lower
Lower(s) == [i \in DOMAIN s |-> LowerChar(s[i])]

\* str.title: a letter is upper-cased after a non-letter, lower-cased after a letter
Title(s) ==
    [i \in DOMAIN s |->
        IF i > 1 /\ IsAlpha(s[i - 1]) THEN LowerChar(s[i]) ELSE UpperChar(s[i])]

\* needle occurs in hay at position i
MatchAt(hay, needle, i) ==
    /\ i >= 1
    /\ i + Len(needle) - 1 <= Len(hay)
    /\ \A k \in 1..Len(needle) : hay[i + k - 1] = needle[k]

\* needle in hay
Contains(hay, needle) == \E i \in 1..(Len(hay) + 1) : MatchAt(hay, needle, i)

\* str.rfind for a single character: 0 stands for Python's -1
RFind(s, c) ==
    IF \E i \in DOMAIN s : s[i] = c
    THEN CHOOSE i \in DOMAIN s : s[i] = c /\ \A j \in DOMAIN s : s[j] = c => j <= i
    ELSE 0

\* str.replace(c, "") for a single character
RemoveChar(s, c) == SelectSeq(s, LAMBDA x : x # c)

\* str.replace(c, d) for single characters
ReplaceChar(s, c, d) == [i \in DOMAIN s |-> IF s[i] = c THEN d ELSE s[i]]

\* str.replace(old, new), leftmost non-overlapping occurrences, old non-empty
RECURSIVE ReplaceAll(_, _, _)
ReplaceAll(s, old, new) ==
    LET hits == {i \in DOMAIN s : MatchAt(s, old, i)}
    IN  IF hits = {} THEN s
        ELSE LET i == CHOOSE x \in hits : \A y \in hits : x <= y
             IN  SubSeq(s, 1, i - 1) \o new
                     \o ReplaceAll(SubSeq(s, i + Len(old), Len(s)), old, new)

\* the leftmost match of a scan: at holds <<position, match>> for every
\* position tried, with <<>> as match where there is none; <<>> when no
\* position matches
FirstHit(at) ==
    LET hits == {a \in at : a[2] # <<>>}
    IN  IF hits = {} THEN <<>>
        ELSE CHOOSE a \in hits : \A b \in hits : a[1] <= b[1]

\* str.strip
Strip(s) ==
    IF \A i \in DOMAIN s : IsSpace(s[i]) THEN <<>>
    ELSE LET a == CHOOSE i \in DOMAIN s :
                      ~IsSpace(s[i]) /\ \A j \in 1..(i - 1) : IsSpace(s[j])
             b == CHOOSE i \in DOMAIN s :
                      ~IsSpace(s[i]) /\ \A j \in (i + 1)..Len(s) : IsSpace(s[j])
         IN  SubSeq(s, a, b)

\* str.splitlines
SplitLines(s) ==
    LET breaks == {i \in DOMAIN s : s[i] = "\n"}
        \* the position of the k-th line break; 0 and Len(s) + 1 bound the text
        BreakAt(k) ==
            IF k = 0 THEN 0
            ELSE IF k > Cardinality(breaks) THEN Len(s) + 1
            ELSE CHOOSE i \in breaks : Cardinality({j \in breaks : j <= i}) = k
        n == IF s = <<>> THEN 0
             ELSE IF s[Len(s)] = "\n" THEN Cardinality(breaks)
             ELSE Cardinality(breaks) + 1
    IN  [k \in 1..n |-> SubSeq(s, BreakAt(k - 1) + 1, BreakAt(k) - 1)]

\* [l.strip() for l in s.splitlines() if l.strip()]
StripNonBlank(ls) ==
    SelectSeq([i \in DOMAIN ls |-> Strip(ls[i])], LAMBDA l : Len(l) > 0)

NonBlankLines(s) == StripNonBlank(SplitLines(s))

\* s.split("\n")[0]
FirstLine(s) ==
    IF \E i \in DOMAIN s : s[i] = "\n"
    THEN LET i == CHOOSE k \in DOMAIN s :
                      s[k] = "\n" /\ \A j \in 1..(k - 1) : s[j] # "\n"
         IN  SubSeq(s, 1, i - 1)
    ELSE s

\* "\n".join(parts)
RECURSIVE JoinLines(_)
JoinLines(parts) ==
    IF parts = <<>> THEN <<>>
    ELSE IF Len(parts) = 1 THEN parts[1]
    ELSE LET h == Len(parts) \div 2
         IN  JoinLines(SubSeq(parts, 1, h)) \o <<"\n">>
                 \o JoinLines(SubSeq(parts, h + 1, Len(parts)))

Pow10(n) == IF n = 0 THEN 1 ELSE IF n = 1 THEN 10 ELSE IF n = 2 THEN 100
            ELSE IF n = 3 THEN 1000 ELSE IF n = 4 THEN 10000
            ELSE IF n = 5 THEN 100000 ELSE IF n = 6 THEN 1000000
            ELSE IF n = 7 THEN 10000000 ELSE 100000000

(***************************************************************************)
(* parse_number (nested in extract_total_amount).                          *)
(***************************************************************************)
RECURSIVE DigitsValue(_)
DigitsValue(s) ==
    IF s = <<>> THEN 0
    ELSE IF IsDigit(s[Len(s)])
    THEN 10 * DigitsValue(SubSeq(s, 1, Len(s) - 1)) + DigitVal(s[Len(s)])
    ELSE DigitsValue(SubSeq(s, 1, Len(s) - 1))

RECURSIVE Canonical(_, _)
Canonical(m, sc) ==
    IF m = 0 THEN <<0, 0>>
    ELSE IF sc > 0 /\ m % 10 = 0 THEN Canonical(m \div 10, sc - 1)
    ELSE <<m, sc>>

\* float(s) accepts, over these characters: digits with at most one "."
FloatOk(s) ==
    /\ \A i \in DOMAIN s : IsDigit(s[i]) \/ s[i] = "."
    /\ \E i \in DOMAIN s : IsDigit(s[i])
    /\ Cardinality({i \in DOMAIN s : s[i] = "."}) <= 1

FloatValue(s) ==
    LET d == RFind(s, ".")
    IN  Canonical(DigitsValue(s), IF d = 0 THEN 0 ELSE Len(s) - d)

ZeroValue == <<0, 0>>

\* faulty variant: the earlier separator taken as the decimal one
NormalizeSeparators_EarlierIsDecimal(s) ==
    IF RFind(s, ",") > 0 /\ RFind(s, ".") > 0
    THEN IF RFind(s, ",") < RFind(s, ".")
         THEN ReplaceChar(RemoveChar(s, "."), ",", ".")
         ELSE RemoveChar(s, ",")
    ELSE ReplaceChar(s, ",", ".")

NormalizeSeparators(s) ==
    IF RFind(s, ",") > 0 /\ RFind(s, ".") > 0
    THEN IF RFind(s, ",") > RFind(s, ".")
         THEN ReplaceChar(RemoveChar(s, "."), ",", ".")
         ELSE RemoveChar(s, ",")
    ELSE ReplaceChar(s, ",", ".")

parse_number(s0) ==
    LET s == NormalizeSeparators(RemoveChar(Strip(s0), " "))
    IN  IF FloatOk(s) THEN FloatValue(s) ELSE ZeroValue

\* a parsed value in thousandths (exact when scale <= 3)
Milli(v) == v[1] * Pow10(3 - v[2])

(***************************************************************************)
(* parse_number on its own: every string over NumAlphabet up to MaxNumLen  *)
(* characters, and the documented examples.                                *)
(***************************************************************************)
MaxNumLen == 4

NumAlphabet == {"0", "7", ".", ",", " "}

SeqsUpTo(S, n) == UNION {[1..k -> S] : k \in 0..n}

Ex_1p234c56 == <<"1",".","2","3","4",",","5","6">>
Ex_1c234p56 == <<"1",",","2","3","4",".","5","6">>
Ex_1234c56 == <<"1","2","3","4",",","5","6">>
Ex_900 == <<"9","0","0">>
Ex_1s234c56 == <<"1"," ","2","3","4",",","5","6">>
Ex_garbage == <<"g","a","r","b","a","g","e">>
Ex_1p234p567 == <<"1",".","2","3","4",".","5","6","7">>

NumberExamples ==
    {Ex_1p234c56, Ex_1c234p56, Ex_1234c56, Ex_900, Ex_1s234c56, Ex_garbage,
     Ex_1p234p567}

NumberInputs == SeqsUpTo(NumAlphabet, MaxNumLen) \cup NumberExamples

NoValue == <<>>
NoText == <<>>

Idle ==
    /\ num = NoValue
    /\ detected = NoText
    /\ vendor = NoText
    /\ prev = NoText
    /\ currency = "unset"
    /\ total = 0
    /\ savings = 0
    /\ StoreIdle

InitParse ==
    /\ raw_text \in NumberInputs
    /\ pc = "parse"
    /\ Idle

ParseStep ==
    /\ pc = "parse"
    /\ num' = parse_number(raw_text)
    /\ pc' = "parsed"
    /\ UNCHANGED <<raw_text, detected, vendor, prev, currency, total, savings>>
    /\ UNCHANGED store_vars

NextParse == ParseStep

SpecParse == InitParse /\ [][NextParse]_vars

IsSeparator(c) == c \in {".", ","}

\* the position of the last "." or "," of s, 0 when there is none
LastSeparator(s) ==
    IF \E i \in DOMAIN s : IsSeparator(s[i])
    THEN CHOOSE i \in DOMAIN s :
             IsSeparator(s[i]) /\ \A j \in (i + 1)..Len(s) : ~IsSeparator(s[j])
    ELSE 0

\* digits, spaces and separators only, at least one digit, and the kind of
\* separator that comes last occurs once
WellFormedNumber(s) ==
    /\ s # <<>>
    /\ \A i \in DOMAIN s : IsDigit(s[i]) \/ IsSeparator(s[i]) \/ s[i] = " "
    /\ \E i \in DOMAIN s : IsDigit(s[i])
    /\ LET p == LastSeparator(s)
       IN  p > 0 => Cardinality({i \in DOMAIN s : s[i] = s[p]}) = 1

\* the decimal read with the last separator as the decimal point and every
\* other separator and space dropped
ExpectedDecimal(s) ==
    LET p == LastSeparator(s)
        frac == IF p = 0 THEN 0
                ELSE Cardinality({i \in (p + 1)..Len(s) : IsDigit(s[i])})
    IN  Canonical(DigitsValue(s), frac)

\* C10: the later of "." and "," is the decimal separator and the earlier kind
\* is dropped, a lone "." or "," is the decimal separator, spaces are removed;
\* "1.234,56", "1,234.56" and "1234,56" parse to 1234.56 and "900" to 900.
C10_LastSeparatorIsDecimal ==
    pc = "parsed" =>
        /\ WellFormedNumber(raw_text) => num = ExpectedDecimal(raw_text)
        /\ raw_text \in {Ex_1p234c56, Ex_1c234p56, Ex_1234c56, Ex_1s234c56}
               => num = <<123456, 2>>
        /\ raw_text = Ex_900 => num = <<900, 0>>

C10_Witness ==
    /\ pc = "parsed"
    /\ raw_text = Ex_1p234c56
    /\ num = <<123456, 2>>

(***************************************************************************)
(* The savings estimate of preview.  total is in thousandths, the product  *)
(* total * rate in units of 10^-5, savings in cents.                       *)
(***************************************************************************)
RateLowPct == 10
RateHighPct == 15
\* 1000, in thousandths
TierTotal == 1000000
\* 2500, in units of 10^-5
SavingsCap == 250000000
UnitsPerCent == 10 * 100

Min(a, b) == IF a < b THEN a ELSE b

\* faulty variant: the two tiers exchanged
RatePct_Swapped(t) == IF t < TierTotal THEN RateHighPct ELSE RateLowPct

\* rate = 0.10 if total < 1000 else 0.15
RatePct(t) == IF t < TierTotal THEN RateLowPct ELSE RateHighPct

\* faulty variant: truncation instead of rounding
RoundToCents_Truncate(x) == {x \div UnitsPerCent}

\* round(x, 2) of the double nearest to x / 10^5: the nearest cent; when x is
\* a decimal tie the double lies on either side of it, so both neighbours are
\* possible results
RoundToCents(x) ==
    LET q == x \div UnitsPerCent
        r == x % UnitsPerCent
    IN  IF 2 * r < UnitsPerCent THEN {q}
        ELSE IF 2 * r > UnitsPerCent THEN {q + 1}
        ELSE {q, q + 1}

\* faulty variant: the cap left out
SavingsOutcomes_NoCap(t) ==
    IF t > 0 THEN RoundToCents(t * RatePct(t)) ELSE {0}

\* savings = round(min(total * rate, 2500), 2) if total > 0 else 0.0
SavingsOutcomes(t) ==
    IF t > 0 THEN RoundToCents(Min(t * RatePct(t), SavingsCap)) ELSE {0}

SavingsStep ==
    /\ pc = "savings"
    /\ savings' \in SavingsOutcomes(total)
    /\ pc' = "saved"
    /\ UNCHANGED <<raw_text, num, detected, vendor, prev, currency, total>>
    /\ UNCHANGED store_vars

\* totals within SavingsWindow thousandths of 0, of the tier boundary and of
\* the total at which the cap is reached, and the documented examples
SavingsWindow == 120

CapTotal == SavingsCap \div RateHighPct

SavingsTotals ==
    (0..SavingsWindow)
    \cup ((TierTotal - SavingsWindow)..(TierTotal + SavingsWindow))
    \cup ((CapTotal - SavingsWindow)..(CapTotal + SavingsWindow))
    \cup {500000, 2000000, 20000000}

InitSavings ==
    /\ raw_text = NoText
    /\ num = NoValue
    /\ detected = NoText
    /\ vendor = NoText
    /\ prev = NoText
    /\ currency = "unset"
    /\ total \in SavingsTotals
    /\ savings = 0
    /\ pc = "savings"
    /\ StoreIdle

NextSavings == SavingsStep

SpecSavings == InitSavings /\ [][NextSavings]_vars

Abs(x) == IF x < 0 THEN -x ELSE x

\* C2: savings is 0.0 when total <= 0, otherwise min(total * rate, 2500)
\* rounded to 2 decimals (within half a cent of it), rate 10% below 1000 and
\* 15% from 1000; estimate(500) = 50, estimate(2000) = 300,
\* estimate(20000) = 2500, estimate(0) = 0.
C2_SavingsFormula ==
    pc = "saved" =>
        /\ total <= 0 => savings = 0
        /\ (total > 0 /\ total < 1000000) =>
               2 * Abs(savings * 1000 - Min(total * 10, 250000000)) <= 1000
        /\ total >= 1000000 =>
               2 * Abs(savings * 1000 - Min(total * 15, 250000000)) <= 1000
        /\ total = 500000 => savings = 5000
        /\ total = 2000000 => savings = 30000
        /\ total = 20000000 => savings = 250000
        /\ total = 0 => savings = 0

C2_Witness == pc = "saved" /\ total = 20000000 /\ savings = 250000

\* C3 as stated: savings is 0.0 if and only if total is 0.0.
C3_ZeroIffZeroTotal == pc = "saved" => (savings = 0 <=> total = 0)

\* C3 amended: savings is 0.0 for total 0.0 and for every total below 0.05,
\* and strictly positive for every total above 0.05.
C3_ZeroBelowFiveCents ==
    pc = "saved" =>
        /\ total < 50 => savings = 0
        /\ total > 50 => savings > 0

C3_Witness == pc = "saved" /\ total = 10 /\ savings = 0

\* C4: savings is non-negative, at most the cap 2500, and non-decreasing in
\* total: every larger total yields at least, every smaller total at most,
\* this savings, across the tier boundary at 1000 too.
C4_SavingsMonotone ==
    pc = "saved" =>
        /\ savings >= 0
        /\ savings <= 250000
        /\ \A b \in SavingsTotals : \A sb \in SavingsOutcomes(b) :
               /\ b > total => savings <= sb
               /\ b < total => sb <= savings

C4_Witness == pc = "saved" /\ total = TierTotal - 1 /\ savings = 10000

(***************************************************************************)
(* detect_currency.                                                        *)
(***************************************************************************)
HasChar(text, c) == \E i \in DOMAIN text : text[i] = c

\* faulty variant: "$" looked for before the euro sign
detect_currency_DollarFirst(text) ==
    IF HasChar(text, "$") THEN "USD"
    ELSE IF HasChar(text, "€") THEN "EUR"
    ELSE IF HasChar(text, "£") THEN "GBP"
    ELSE "UNKNOWN"

\* faulty variant: EUR instead of "UNKNOWN" when no symbol is found
detect_currency_DefaultEUR(text) ==
    IF HasChar(text, "€") THEN "EUR"
    ELSE IF HasChar(text, "$") THEN "USD"
    ELSE IF HasChar(text, "£") THEN "GBP"
    ELSE "EUR"

detect_currency(text) ==
    IF HasChar(text, "€") THEN "EUR"
    ELSE IF HasChar(text, "$") THEN "USD"
    ELSE IF HasChar(text, "£") THEN "GBP"
    ELSE "UNKNOWN"

CurrencyStep ==
    /\ pc = "currency"
    /\ currency' = detect_currency(raw_text)
    /\ pc' = "total"
    /\ UNCHANGED <<raw_text, num, detected, vendor, prev, total, savings>>
    /\ UNCHANGED store_vars

\* documents: up to MaxCurrencyFrags fragments, concatenated
MaxCurrencyFrags == 3

Fr_Total42 == <<"T","o","t","a","l",":"," ","4","2">>
Fr_Euro == <<"€">>
Fr_Dollar == <<"$">>
Fr_Pound == <<"£">>
Fr_EUR == <<" ","E","U","R">>
Fr_euro == <<" ","e","u","r","o">>
Fr_usd == <<" ","u","s","d">>
Fr_GBP == <<" ","G","B","P">>
Fr_42 == <<"4","2">>
Fr_nocur == <<"n","o"," ","c","u","r","r","e","n","c","y"," ","h","e","r","e">>

Ex_Total42Euro == Fr_Total42 \o Fr_Euro
Ex_TotalDollar42 == <<"T","o","t","a","l",":"," ","$","4","2">>
Ex_Total42EUR == Fr_Total42 \o Fr_EUR

CurrencyFrags ==
    {Fr_Total42, Fr_Euro, Fr_Dollar, Fr_Pound, Fr_EUR, Fr_euro, Fr_usd, Fr_GBP,
     Fr_42, Fr_nocur}

RECURSIVE Concat(_)
Concat(parts) ==
    IF parts = <<>> THEN <<>> ELSE Head(parts) \o Concat(Tail(parts))

CurrencyDocs ==
    {Concat(d) : d \in SeqsUpTo(CurrencyFrags, MaxCurrencyFrags)}
    \cup {Ex_TotalDollar42}

InitCurrency ==
    /\ raw_text \in CurrencyDocs
    /\ pc = "currency"
    /\ Idle

NextCurrency == CurrencyStep

SpecCurrency == InitCurrency /\ [][NextCurrency]_vars

Kw_eur == <<" ","e","u","r">>
Kw_euro == <<" ","e","u","r","o">>
Kw_usd == <<" ","u","s","d">>
Kw_gbp == <<" ","g","b","p">>

HasSymbol(text) == HasChar(text, "€") \/ HasChar(text, "$") \/ HasChar(text, "£")

HasCurrencyKeyword(text) ==
    \E k \in {Kw_eur, Kw_euro, Kw_usd, Kw_gbp} : Contains(Lower(text), k)

\* C5: EUR whenever the text holds "€", USD whenever it holds "$" and no "€",
\* GBP whenever it holds "£" and neither of the others, whatever currency
\* keywords the text holds as well; UNKNOWN when neither a symbol nor a
\* keyword occurs.
C5_SymbolPriority ==
    CurrencyDone =>
        /\ HasChar(raw_text, "€") => currency = "EUR"
        /\ (HasChar(raw_text, "$") /\ ~HasChar(raw_text, "€")) => currency = "USD"
        /\ (HasChar(raw_text, "£") /\ ~HasChar(raw_text, "€")
                /\ ~HasChar(raw_text, "$")) => currency = "GBP"
        /\ (~HasSymbol(raw_text) /\ ~HasCurrencyKeyword(raw_text))
               => currency = "UNKNOWN"
        /\ raw_text = Ex_Total42Euro => currency = "EUR"
        /\ raw_text = Ex_TotalDollar42 => currency = "USD"
        /\ raw_text = Fr_nocur => currency = "UNKNOWN"

\* a "$" together with the keyword " eur": the symbol wins
C5_Witness ==
    /\ CurrencyDone
    /\ raw_text = Fr_Dollar \o Fr_42 \o Fr_EUR
    /\ currency = "USD"

\* C6: without any symbol, the lower-cased text holding " eur" or " euro"
\* yields EUR, " usd" yields USD and " gbp" yields GBP.
C6_KeywordFallback ==
    (CurrencyDone /\ ~HasSymbol(raw_text)) =>
        /\ (Contains(Lower(raw_text), Kw_eur) \/ Contains(Lower(raw_text), Kw_euro))
               => currency = "EUR"
        /\ (Contains(Lower(raw_text), Kw_usd)
                /\ ~Contains(Lower(raw_text), Kw_eur)) => currency = "USD"
        /\ (Contains(Lower(raw_text), Kw_gbp)
                /\ ~Contains(Lower(raw_text), Kw_eur)
                /\ ~Contains(Lower(raw_text), Kw_usd)) => currency = "GBP"

(***************************************************************************)
(* normalize_vendor.                                                       *)
(***************************************************************************)
UNKNOWN == <<"U","N","K","N","O","W","N">>

\* faulty variant: the name is title-cased before the replacements
normalize_vendor_TitleFirst(v) ==
    LET v1 == Title(Strip(IF v = <<>> THEN UNKNOWN ELSE v))
    IN  ReplaceAll(ReplaceAll(ReplaceAll(ReplaceAll(v1,
            <<"I","a">>, <<"I","A">>),
            <<"A","w","s">>, <<"A","W","S">>),
            <<"H","u","b","s","p","o","t">>, <<"H","u","b","S","p","o","t">>),
            <<"G","o","o","g","l","e"," ","w","o","r","k","s","p","a","c","e">>, <<"G","o","o","g","l","e"," ","W","o","r","k","s","p","a","c","e">>)

\* v = (v or "UNKNOWN").strip(), then the four replacements in order
normalize_vendor(v) ==
    LET v1 == Strip(IF v = <<>> THEN UNKNOWN ELSE v)
    IN  ReplaceAll(ReplaceAll(ReplaceAll(ReplaceAll(v1,
            <<"I","a">>, <<"I","A">>),
            <<"A","w","s">>, <<"A","W","S">>),
            <<"H","u","b","s","p","o","t">>, <<"H","u","b","S","p","o","t">>),
            <<"G","o","o","g","l","e"," ","w","o","r","k","s","p","a","c","e">>, <<"G","o","o","g","l","e"," ","W","o","r","k","s","p","a","c","e">>)

(***************************************************************************)
(* detect_vendor.                                                          *)
(***************************************************************************)
brands ==
    <<<<<<"g","o","o","g","l","e"," ","w","o","r","k","s","p","a","c","e">>,
        <<"G","o","o","g","l","e"," ","W","o","r","k","s","p","a","c","e">>>>,
      <<<<"g","o","o","g","l","e">>,
        <<"G","o","o","g","l","e">>>>,
      <<<<"n","o","t","i","o","n">>,
        <<"N","o","t","i","o","n">>>>,
      <<<<"m","i","c","r","o","s","o","f","t"," ","3","6","5">>,
        <<"M","i","c","r","o","s","o","f","t"," ","3","6","5">>>>,
      <<<<"o","f","f","i","c","e"," ","3","6","5">>,
        <<"M","i","c","r","o","s","o","f","t"," ","3","6","5">>>>,
      <<<<"m","i","c","r","o","s","o","f","t">>,
        <<"M","i","c","r","o","s","o","f","t">>>>,
      <<<<"a","z","u","r","e">>,
        <<"M","i","c","r","o","s","o","f","t"," ","A","z","u","r","e">>>>,
      <<<<"a","d","o","b","e">>,
        <<"A","d","o","b","e">>>>,
      <<<<"s","l","a","c","k">>,
        <<"S","l","a","c","k">>>>,
      <<<<"s","t","r","i","p","e">>,
        <<"S","t","r","i","p","e">>>>,
      <<<<"a","m","a","z","o","n"," ","w","e","b"," ","s","e","r","v","i","c","e","s">>,
        <<"A","W","S">>>>,
      <<<<"a","w","s">>,
        <<"A","W","S">>>>,
      <<<<"o","v","h">>,
        <<"O","V","H","c","l","o","u","d">>>>,
      <<<<"g","i","t","h","u","b">>,
        <<"G","i","t","H","u","b">>>>,
      <<<<"c","a","n","v","a">>,
        <<"C","a","n","v","a">>>>,
      <<<<"d","r","o","p","b","o","x">>,
        <<"D","r","o","p","b","o","x">>>>,
      <<<<"z","o","o","m">>,
        <<"Z","o","o","m">>>>,
      <<<<"h","u","b","s","p","o","t">>,
        <<"H","u","b","S","p","o","t">>>>,
      <<<<"s","h","o","p","i","f","y">>,
        <<"S","h","o","p","i","f","y">>>>,
      <<<<"o","p","e","n","a","i">>,
        <<"O","p","e","n","A","I">>>>>>

\* faulty variant: the list scanned from its end
BrandScan_FromEnd(low, i) ==
    LET hits == {k \in i..Len(brands) : Contains(low, brands[Len(brands) + 1 - k][1])}
    IN  IF hits = {} THEN <<>>
        ELSE brands[Len(brands) + 1 - (CHOOSE x \in hits : \A y \in hits : x <= y)][2]

\* for key, name in brands: if key in low: return name  (<<>>: no brand)
BrandScan(low, i) ==
    LET hits == {k \in i..Len(brands) : Contains(low, brands[k][1])}
    IN  IF hits = {} THEN <<>>
        ELSE brands[CHOOSE x \in hits : \A y \in hits : x <= y][2]

\* the index after the whitespace run that starts at i  (\s*, greedy)
SkipSpaces(s, i) ==
    IF i > Len(s) THEN i
    ELSE CHOOSE k \in i..(Len(s) + 1) :
             /\ k > Len(s) \/ ~IsSpace(s[k])
             /\ \A j \in i..(k - 1) : IsSpace(s[j])

\* the index of the last character of the line that holds position i
LineEnd(s, i) ==
    IF i >= Len(s) THEN i
    ELSE CHOOSE k \in i..Len(s) :
             /\ k = Len(s) \/ s[k + 1] = "\n"
             /\ \A j \in i..(k - 1) : s[j + 1] # "\n"

Lb_factur == <<"f","a","c","t","u","r">>
Lb_par == <<"p","a","r">>

\* the labels of the two patterns, lower-cased; the first label of the first
\* pattern is factur[eé]\s*par
labels1 == <<<<"f","o","u","r","n","i","s","s","e","u","r">>, <<"v","e","n","d","o","r">>, <<"s","e","l","l","e","r">>, <<"i","s","s","u","e","d"," ","b","y">>>>
labels2 == <<<<"s","o","c","i","e","t","e">>, <<"s","o","c","i","e","t","é">>, <<"s","o","c","i","é","t","e">>, <<"s","o","c","i","é","t","é">>,
             <<"c","o","m","p","a","n","y">>>>

\* factur[eé]\s*par at position i of the lower-cased text: the index after
\* the match, 0 when it does not match
FacturParEnd(low, i) ==
    IF MatchAt(low, Lb_factur, i) /\ i + 6 <= Len(low) /\ low[i + 6] \in {"e", "é"}
    THEN LET k == SkipSpaces(low, i + 7)
         IN  IF MatchAt(low, Lb_par, k) THEN k + 3 ELSE 0
    ELSE 0

\* \s*[:\-]\s*(.+) from position j: <<start, end>> of the group, <<>> when it
\* does not match.  \s* gives characters back when it has run to the end of
\* the text: the group then starts at the last whitespace character that is
\* not a line break.
TailCapture(s, j) ==
    LET k == SkipSpaces(s, j)
    IN  IF k > Len(s) \/ s[k] \notin {":", "-"} THEN <<>>
        ELSE LET w == SkipSpaces(s, k + 1)
                 back == {b \in (k + 1)..Len(s) : s[b] # "\n"}
             IN  IF w <= Len(s) THEN <<w, LineEnd(s, w)>>
                 ELSE IF back = {} THEN <<>>
                 ELSE LET b == CHOOSE x \in back : \A y \in back : y <= x
                      IN  <<b, LineEnd(s, b)>>

\* the alternatives of a pattern tried in order at position i
RECURSIVE LabelCapture(_, _, _, _, _)
LabelCapture(s, low, labels, i, n) ==
    IF n > Len(labels) THEN <<>>
    ELSE LET c == IF MatchAt(low, labels[n], i)
                  THEN TailCapture(s, i + Len(labels[n]))
                  ELSE <<>>
         IN  IF c # <<>> THEN c ELSE LabelCapture(s, low, labels, i, n + 1)

CaptureAt(s, low, withFactur, labels, i) ==
    LET f == IF withFactur /\ FacturParEnd(low, i) > 0
             THEN TailCapture(s, FacturParEnd(low, i))
             ELSE <<>>
    IN  IF f # <<>> THEN f ELSE LabelCapture(s, low, labels, i, 1)

\* re.search(p, raw_text, re.IGNORECASE): the group of the leftmost match as
\* <<text>>, <<>> when the pattern matches nowhere
GroupText(s, hit) ==
    IF hit = <<>> THEN <<>> ELSE <<SubSeq(s, hit[2][1], hit[2][2])>>

PatternSearch(s, low, withFactur, labels, i) ==
    GroupText(s, FirstHit({<<k, CaptureAt(s, low, withFactur, labels, k)>> : k \in i..Len(s)}))

MinCandLen == 3
MaxCandLen == 80

\* faulty variant: a candidate of any length is returned
PatternResult_AnyLength(raw, withFactur, labels) ==
    LET m == PatternSearch(raw, Lower(raw), withFactur, labels, 1)
    IN  IF m = <<>> THEN <<>>
        ELSE <<normalize_vendor(Title(Strip(FirstLine(Strip(m[1])))))>>

\* one pattern of the loop: <<result>> when it returns, <<>> when it goes on
PatternResult(raw, withFactur, labels) ==
    LET m == PatternSearch(raw, Lower(raw), withFactur, labels, 1)
    IN  IF m = <<>> THEN <<>>
        ELSE LET cand == Strip(FirstLine(Strip(m[1])))
             IN  IF MinCandLen <= Len(cand) /\ Len(cand) <= MaxCandLen
                 THEN <<normalize_vendor(Title(cand))>>
                 ELSE <<>>

bad ==
    {<<"f","a","c","t","u","r","e">>, <<"i","n","v","o","i","c","e">>, <<"d","a","t","e">>, <<"t","o","t","a","l">>, <<"t","v","a">>, <<"v","a","t">>, <<"a","d","r","e","s","s","e">>, <<"a","d","d","r","e","s","s">>}

HeadLines == 12
MinLineLen == 4
MinLetters == 6
MaxDigits == 2
MaxLineLen == 60

Count(s, P(_)) == Cardinality({i \in DOMAIN s : P(s[i])})

\* faulty variant: lines with a noise keyword are not skipped
HeadScan_KeepsNoise(head, i) ==
    LET Skipped(l) == Len(l) < MinLineLen
        Named(l) == /\ Count(l, IsAlpha) >= MinLetters
                    /\ Count(l, IsDigit) <= MaxDigits
                    /\ Len(l) <= MaxLineLen
        hits == {k \in i..Len(head) : ~Skipped(head[k]) /\ Named(head[k])}
    IN  IF hits = {} THEN <<>>
        ELSE <<normalize_vendor(head[CHOOSE x \in hits : \A y \in hits : x <= y])>>

\* for l in head: the first line that looks like a company name
HeadScan(head, i) ==
    LET \* continue: too short, or a noise keyword in the line
        Skipped(l) == Len(l) < MinLineLen \/ \E b \in bad : Contains(Lower(l), b)
        Named(l) == /\ Count(l, IsAlpha) >= MinLetters
                    /\ Count(l, IsDigit) <= MaxDigits
                    /\ Len(l) <= MaxLineLen
        hits == {k \in i..Len(head) : ~Skipped(head[k]) /\ Named(head[k])}
    IN  IF hits = {} THEN <<>>
        ELSE <<normalize_vendor(head[CHOOSE x \in hits : \A y \in hits : x <= y])>>

\* the three stages: <<result>> of the first that returns, <<>> when none does
VendorStages(raw_text0) ==
    LET text == Strip(raw_text0)
        b == BrandScan(Lower(text), 1)
        p1 == PatternResult(raw_text0, TRUE, labels1)
        p2 == PatternResult(raw_text0, FALSE, labels2)
        lines == NonBlankLines(text)
        h == HeadScan(SubSeq(lines, 1, Min(HeadLines, Len(lines))), 1)
    IN  IF b # <<>> THEN <<b>>
        ELSE IF p1 # <<>> THEN p1
        ELSE IF p2 # <<>> THEN p2
        ELSE h

\* faulty variant: no sentinel when every stage fails
detect_vendor_NoSentinel(raw_text0) ==
    LET r == VendorStages(raw_text0)
    IN  IF r # <<>> THEN r[1] ELSE <<>>

detect_vendor(raw_text0) ==
    LET r == VendorStages(raw_text0)
    IN  IF r # <<>> THEN r[1] ELSE UNKNOWN

(***************************************************************************)
(* normalize_vendor on its own, applied twice: every string over           *)
(* NormAlphabet up to MaxVendorLen characters, and the names the           *)
(* replacements are written for.                                           *)
(***************************************************************************)
MaxVendorLen == 4

NormAlphabet == {"I", "a", "A", "w", "s", " "}

Ex_Acme__Corp == <<"A","c","m","e"," "," ","C","o","r","p">>

NormInputs ==
    SeqsUpTo(NormAlphabet, MaxVendorLen)
    \cup {<<"H","u","b","s","p","o","t">>, <<"G","o","o","g","l","e"," ","w","o","r","k","s","p","a","c","e">>, <<"I","a","w","s">>, UNKNOWN, Ex_Acme__Corp}
    \cup {b[2] : b \in Range(brands)}

InitNormalize ==
    /\ raw_text = NoText
    /\ num = NoValue
    /\ detected = NoText
    /\ vendor \in NormInputs
    /\ prev = NoText
    /\ currency = "unset"
    /\ total = 0
    /\ savings = 0
    /\ pc = "norm0"
    /\ StoreIdle

NormalizeStep ==
    /\ pc \in {"norm0", "norm1"}
    /\ prev' = vendor
    /\ vendor' = normalize_vendor(vendor)
    /\ pc' = IF pc = "norm0" THEN "norm1" ELSE "norm2"
    /\ UNCHANGED <<raw_text, num, detected, currency, total, savings>>
    /\ UNCHANGED store_vars

NextNormalize == NormalizeStep

SpecNormalize == InitNormalize /\ [][NextNormalize]_vars

\* C7: normalize_vendor(normalize_vendor(x)) = normalize_vendor(x) for every
\* x, the empty and the whitespace-only strings included: the second
\* application changes nothing.
C7_NormalizeIdempotent == pc = "norm2" => vendor = prev

TwoSpaces == <<" ", " ">>

\* C15: the normalized name holds no run of two or more spaces (every such
\* run is collapsed to one space), and none of the spellings "Ia", "Aws",
\* "Hubspot" is left in it.
C15_CollapsesSpaces ==
    pc = "norm1" =>
        /\ ~Contains(vendor, TwoSpaces)
        /\ ~Contains(vendor, <<"I","a">>)
        /\ ~Contains(vendor, <<"A","w","s">>)
        /\ ~Contains(vendor, <<"H","u","b","s","p","o","t">>)

\* the canonical display names of the brand list
BrandNames == {b[2] : b \in Range(brands)}

Nm_HubSpot == <<"H","u","b","S","p","o","t">>

\* C20: normalize_vendor returns every canonical display name of the brand
\* list unchanged.
C20_NoOpOnBrandNames ==
    pc \in {"norm1", "norm2"} /\ prev \in BrandNames => vendor = prev

C20_Witness ==
    /\ pc = "norm1"
    /\ prev = Nm_HubSpot
    /\ prev \in BrandNames
    /\ vendor = Nm_HubSpot

(***************************************************************************)
(* detect_vendor and normalize_vendor as preview applies them, on          *)
(* documents of up to MaxVendorLines lines.                                *)
(***************************************************************************)
MaxVendorLines == 2

Ln_aws == <<"Y","o","u","r"," ","A","W","S"," ","i","n","v","o","i","c","e">>
Ln_gws == <<"G","o","o","g","l","e"," ","W","o","r","k","s","p","a","c","e"," ","p","l","a","n">>
Ln_facture_par == <<"F","a","c","t","u","r","é"," ","p","a","r",":"," ","A","c","m","e"," ","C","o","r","p">>
Ln_fournisseur == <<"F","o","u","r","n","i","s","s","e","u","r",":"," ","O","V","H","c","l","o","u","d">>
Ln_vendor == <<"v","e","n","d","o","r",":">>
Ln_ab == <<"a","b">>
Ln_company == <<"C","O","M","P","A","N","Y"," ","-"," ","g","l","o","b","e","x"," ","i","n","c">>
Ln_dupont == <<"D","u","p","o","n","t"," ","C","o","n","s","e","i","l">>
Ln_facture == <<"F","a","c","t","u","r","e"," ","2","0","2","4","-","0","0","1">>
Ln_blank == <<" "," ">>
Ln_tel == <<"T","e","l"," ","0","1","0","2","0","3","0","4","0","5">>

Ln_iago == <<"I","a","g","o"," ","C","o","n","s","e","i","l">>
Ln_date == <<"D","a","t","e"," ","l","i","m","i","t","e">>

\* a labeled field whose value is n characters long
Lb_seller == <<"s","e","l","l","e","r",":"," ">>
LabeledValue(n) == Lb_seller \o [i \in 1..n |-> "x"]

\* n lines that no stage accepts, then the line l
AfterLines(n, l) == JoinLines([i \in 1..n |-> Ln_tel] \o <<l>>)

\* documents beside the line vocabulary: values at the length limits of the
\* labeled fields, and a company name as 12th and as 13th non-blank line
VendorExamples ==
    {LabeledValue(80), LabeledValue(81),
     AfterLines(11, Ln_dupont), AfterLines(12, Ln_dupont),
     JoinLines([i \in 1..11 |-> Ln_tel] \o <<Ln_blank, Ln_dupont>>)}

VendorLines ==
    {Ln_aws, Ln_gws, Ln_facture_par, Ln_fournisseur, Ln_vendor, Ln_ab, Ln_company,
     Ln_dupont, Ln_facture, Ln_blank, Ln_tel, Ln_iago, Ln_date}

VendorDocs ==
    {JoinLines(d) : d \in SeqsUpTo(VendorLines, MaxVendorLines)} \cup VendorExamples

InitVendor ==
    /\ raw_text \in VendorDocs
    /\ pc = "vendor"
    /\ Idle

\* vendor_guess = normalize_vendor(detect_vendor(raw_text))
VendorStep ==
    /\ pc = "vendor"
    /\ detected' = detect_vendor(raw_text)
    /\ vendor' = normalize_vendor(detected')
    /\ pc' = "currency"
    /\ UNCHANGED <<raw_text, num, prev, currency, total, savings>>
    /\ UNCHANGED store_vars

NextVendor == VendorStep

SpecVendor == InitVendor /\ [][NextVendor]_vars

\* C8: detect_vendor returns a non-empty string for every input, and so does
\* normalize_vendor applied to its result.
C8_VendorNeverEmpty ==
    VendorDone => (detected # <<>> /\ vendor # <<>>)

\* a blank line and a line too short for a name: no stage returns
C8_Witness ==
    /\ VendorDone
    /\ raw_text = JoinLines(<<Ln_blank, Ln_ab>>)
    /\ detected = UNKNOWN
    /\ vendor = UNKNOWN

Kw_google_workspace == <<"g","o","o","g","l","e"," ","w","o","r","k","s","p","a","c","e">>
Nm_Google_Workspace == <<"G","o","o","g","l","e"," ","W","o","r","k","s","p","a","c","e">>
Nm_AWS == <<"A","W","S">>
Nm_OVHcloud == <<"O","V","H","c","l","o","u","d">>

\* the indexes of the brand entries whose keyword occurs in the lower-cased text
BrandHits(text) ==
    {i \in DOMAIN brands : Contains(Lower(Strip(text)), brands[i][1])}

\* C9: when some brand keyword is a substring of the lower-cased text,
\* detect_vendor returns the canonical name of the first such entry of the
\* list, wherever the keyword stands and whatever labeled fields or lines the
\* text holds; "google workspace" yields "Google Workspace", not "Google".
C9_FirstBrandInListOrder ==
    VendorDone =>
        /\ BrandHits(raw_text) # {} =>
               \E i \in BrandHits(raw_text) :
                   /\ \A j \in BrandHits(raw_text) : i <= j
                   /\ detected = brands[i][2]
        /\ Contains(Lower(raw_text), Kw_google_workspace)
               => detected = Nm_Google_Workspace
        /\ raw_text = Ln_aws => detected = Nm_AWS
        /\ raw_text = Ln_fournisseur => detected = Nm_OVHcloud

\* "aws" stands first in the text, "google workspace" first in the list
C9_Witness ==
    /\ VendorDone
    /\ raw_text = JoinLines(<<Ln_aws, Ln_gws>>)
    /\ detected = Nm_Google_Workspace

\* the value the labeled-field pattern captures in the text, as <<value>>;
\* <<>> when the pattern matches nowhere
Captured(text, withFactur, labels) ==
    PatternSearch(text, Lower(text), withFactur, labels, 1)

\* the candidate: the first line of the captured value, trimmed
Candidate(m) == Strip(FirstLine(Strip(m[1])))

Accepted(m) == m # <<>> /\ 3 <= Len(Candidate(m)) /\ Len(Candidate(m)) <= 80

Rejected(m) == m # <<>> /\ ~Accepted(m)

Nm_Acme_Corp == <<"A","c","m","e"," ","C","o","r","p">>
Nm_Globex_Inc == <<"G","l","o","b","e","x"," ","I","n","c">>

\* C18: with a brand keyword in the text the labeled fields are not
\* consulted; without one, the first of the two patterns, in order, whose
\* candidate (first line of the captured value, trimmed) is 3 to 80
\* characters long supplies the result, title-cased and then normalized; a
\* candidate outside that range is never returned, the next pattern or
\* Stage 3 decides.  "Facturé par: Acme Corp" followed by other lines yields
\* "Acme Corp".
C18_LabeledFieldLength ==
    VendorDone =>
        LET m1 == Captured(raw_text, TRUE, labels1)
            m2 == Captured(raw_text, FALSE, labels2)
        IN  /\ BrandHits(raw_text) # {} =>
                   \E i \in BrandHits(raw_text) : detected = brands[i][2]
            /\ BrandHits(raw_text) = {} =>
                   /\ Accepted(m1) => detected = normalize_vendor(Title(Candidate(m1)))
                   /\ ~Accepted(m1) /\ Accepted(m2)
                          => detected = normalize_vendor(Title(Candidate(m2)))
                   /\ Rejected(m1) => detected # normalize_vendor(Title(Candidate(m1)))
                   /\ Rejected(m2) => detected # normalize_vendor(Title(Candidate(m2)))
            /\ \A l \in {Ln_dupont, Ln_facture, Ln_tel, Ln_company, Ln_blank} :
                   raw_text = JoinLines(<<Ln_facture_par, l>>) => detected = Nm_Acme_Corp
            /\ raw_text = JoinLines(<<Ln_vendor, Ln_ab>>) => detected = Ln_vendor
            /\ raw_text = JoinLines(<<Ln_ab, Ln_company>>) => detected = Nm_Globex_Inc
            /\ raw_text = LabeledValue(80) => Len(detected) = 80
            /\ raw_text = LabeledValue(81) => detected = UNKNOWN

\* "vendor:" followed by the line "ab": the candidate "ab" is too short, the
\* second pattern does not match and Stage 3 returns the line "vendor:"
C18_Witness ==
    /\ VendorDone
    /\ raw_text = JoinLines(<<Ln_vendor, Ln_ab>>)
    /\ Rejected(Captured(raw_text, TRUE, labels1))
    /\ detected = Ln_vendor

\* the first 12 non-blank lines of the text, trimmed
First12(text) ==
    LET ls == NonBlankLines(Strip(text))
    IN  SubSeq(ls, 1, IF Len(ls) < 12 THEN Len(ls) ELSE 12)

\* a line Stage 3 neither skips nor turns down
Plausible(l) ==
    /\ Len(l) >= 4
    /\ ~\E b \in bad : Contains(Lower(l), b)
    /\ Cardinality({i \in DOMAIN l : IsAlpha(l[i])}) >= 6
    /\ Cardinality({i \in DOMAIN l : IsDigit(l[i])}) <= 2
    /\ Len(l) <= 60

\* no brand keyword in the text and no labeled field accepted
Stage3Decides(text) ==
    /\ BrandHits(text) = {}
    /\ ~Accepted(Captured(text, TRUE, labels1))
    /\ ~Accepted(Captured(text, FALSE, labels2))

Nm_IAgo_Conseil == <<"I","A","g","o"," ","C","o","n","s","e","i","l">>

\* C19 as stated: when Stage 3 decides, the result is the first of the first
\* 12 non-blank lines that is at least 4 characters long, holds no noise
\* keyword, has at least 6 letters, at most 2 digits and at most 60
\* characters, that line itself; "UNKNOWN" when there is no such line.
C19_FirstPlausibleLine ==
    VendorDone /\ Stage3Decides(raw_text) =>
        LET head == First12(raw_text)
            ok == {i \in DOMAIN head : Plausible(head[i])}
        IN  IF ok = {} THEN detected = UNKNOWN
            ELSE \E i \in ok : /\ \A j \in ok : i <= j
                               /\ detected = head[i]

\* C19, amended: the same selection, and the result is the selected line
\* after normalize_vendor ("Iago Conseil" yields "IAgo Conseil"); the 13th
\* non-blank line is never looked at.
C19_FirstPlausibleLineNormalized ==
    VendorDone =>
        /\ Stage3Decides(raw_text) =>
               LET head == First12(raw_text)
                   ok == {i \in DOMAIN head : Plausible(head[i])}
               IN  IF ok = {} THEN detected = UNKNOWN
                   ELSE \E i \in ok : /\ \A j \in ok : i <= j
                                      /\ detected = normalize_vendor(head[i])
        /\ raw_text = AfterLines(11, Ln_dupont) => detected = Ln_dupont
        /\ raw_text = AfterLines(12, Ln_dupont) => detected = UNKNOWN
        /\ raw_text = JoinLines(<<Ln_date, Ln_iago>>) => detected = Nm_IAgo_Conseil
        /\ raw_text \in {Ln_date, Ln_tel, Ln_ab, Ln_facture} => detected = UNKNOWN

\* the noise line "Date limite" is skipped and the next line is returned,
\* normalized
C19_Witness ==
    /\ VendorDone
    /\ raw_text = JoinLines(<<Ln_date, Ln_iago>>)
    /\ Stage3Decides(raw_text)
    /\ detected = Nm_IAgo_Conseil

(***************************************************************************)
(* extract_total_amount.                                                   *)
(***************************************************************************)
priority_keys ==
    <<<<"t","o","t","a","l"," ","t","t","c">>,
      <<"m","o","n","t","a","n","t"," ","t","t","c">>,
      <<"t","o","t","a","l"," ","à"," ","p","a","y","e","r">>,
      <<"n","e","t"," ","à"," ","p","a","y","e","r">>,
      <<"a","m","o","u","n","t"," ","d","u","e">>,
      <<"t","o","t","a","l"," ","d","u","e">>,
      <<"g","r","a","n","d"," ","t","o","t","a","l">>,
      <<"t","o","t","a","l">>>>

\* €|eur|usd|\$|gbp|£
currency_tokens == <<<<"€">>, <<"e","u","r">>, <<"u","s","d">>, <<"$">>, <<"g","b","p">>, <<"£">>>>

\* [0-9]{n} at position i
DigitsAt(s, i, n) ==
    /\ i >= 1
    /\ i + n - 1 <= Len(s)
    /\ \A k \in 0..(n - 1) : IsDigit(s[i + k])

\* faulty variant: only "." separates the groups of three digits
GroupsAfter_DotOnly(s, e, g) ==
    \A j \in 0..(g - 1) :
        /\ e + 4 * j + 1 <= Len(s)
        /\ s[e + 4 * j + 1] = "."
        /\ DigitsAt(s, e + 4 * j + 2, 3)

\* (?:[ .][0-9]{3}){g} after position e
GroupsAfter(s, e, g) ==
    \A j \in 0..(g - 1) :
        /\ e + 4 * j + 1 <= Len(s)
        /\ s[e + 4 * j + 1] \in {" ", "."}
        /\ DigitsAt(s, e + 4 * j + 2, 3)

\* (?:[.,][0-9]{2}) after position e
DecimalAfter(s, e) ==
    /\ e + 1 <= Len(s)
    /\ s[e + 1] \in {".", ","}
    /\ DigitsAt(s, e + 2, 2)

\* \s*(€|eur|usd|\$|gbp|£) after position e: the index of the last character
\* of the match, 0 when it does not match
CurrencyEnd(s, e) ==
    LET k == SkipSpaces(s, e + 1)
        hit == {n \in DOMAIN currency_tokens : MatchAt(s, currency_tokens[n], k)}
    IN  IF hit = {} THEN 0
        ELSE LET n == CHOOSE x \in hit : \A y \in hit : x <= y
             IN  k + Len(currency_tokens[n]) - 1

NumberEnd(i, c) == i + c[1] - 1 + 4 * c[2] + 3 * c[3]

\* the ways [0-9]{1,3}(?:[ .][0-9]{3})*(?:[.,][0-9]{2})? matches at position
\* i, as <<leading digits, groups, decimal part 1/0>>.  kind "plain": the
\* pattern alone; "decimal": the decimal part is required; "currency": the
\* currency suffix must follow
NumberMatches(s, i, kind) ==
    {c \in (1..3) \X (0..(Len(s) \div 4)) \X {0, 1} :
        /\ DigitsAt(s, i, c[1])
        /\ GroupsAfter(s, i + c[1] - 1, c[2])
        /\ c[3] = 1 => DecimalAfter(s, i + c[1] - 1 + 4 * c[2])
        /\ kind = "decimal" => c[3] = 1
        /\ kind = "currency" => CurrencyEnd(s, NumberEnd(i, c)) > 0}

\* the order in which the regex engine tries them: more leading digits, then
\* more groups, then the decimal part taken
Preferred(a, b) ==
    \/ a[1] > b[1]
    \/ a[1] = b[1] /\ a[2] > b[2]
    \/ a[1] = b[1] /\ a[2] = b[2] /\ a[3] >= b[3]

\* the match at position i: <<first, last, end of the whole match>>, <<>>
\* when the pattern does not match there
NumberAt(s, i, kind) ==
    LET ms == NumberMatches(s, i, kind)
    IN  IF ms = {} THEN <<>>
        ELSE LET c == CHOOSE a \in ms : \A b \in ms : Preferred(a, b)
                 e == NumberEnd(i, c)
             IN  <<i, e, IF kind = "currency" THEN CurrencyEnd(s, e) ELSE e>>

\* re.search: the leftmost match from position i on, <<>> when there is none
MatchOf(hit) == IF hit = <<>> THEN <<>> ELSE hit[2]

SearchNumber(s, i, kind) ==
    MatchOf(FirstHit({<<k, NumberAt(s, k, kind)>> : k \in i..Len(s)}))

\* re.findall(...)[-1]: the last of the non-overlapping matches found from
\* left to right, given the latest match found so far
RECURSIVE LastNumber(_, _, _, _)
LastNumber(s, i, kind, last) ==
    LET m == SearchNumber(s, i, kind)
    IN  IF m = <<>> THEN last ELSE LastNumber(s, m[3] + 1, kind, m)

HasPriorityKey(ll) == \E n \in DOMAIN priority_keys : Contains(ll, priority_keys[n])

\* the value a keyword line yields, in thousandths: 0 when the line holds no
\* keyword, no number, or a number that does not parse to a positive value
LineValue(l) ==
    IF ~HasPriorityKey(Lower(l)) THEN 0
    ELSE LET m == SearchNumber(l, 1, "plain")
         IN  IF m = <<>> THEN 0
             ELSE Milli(parse_number(SubSeq(l, m[1], m[2])))

\* faulty variant: the last qualifying line instead of the first
RECURSIVE KeywordScan_LastLine(_, _)
KeywordScan_LastLine(lines, i) ==
    IF i > Len(lines) THEN 0
    ELSE IF LineValue(lines[Len(lines) + 1 - i]) > 0
    THEN LineValue(lines[Len(lines) + 1 - i])
    ELSE KeywordScan_LastLine(lines, i + 1)

\* faulty variant: the first keyword line that holds a number ends the scan,
\* whatever that number parses to
RECURSIVE KeywordScan_ReturnsZero(_, _)
KeywordScan_ReturnsZero(lines, i) ==
    IF i > Len(lines) THEN 0
    ELSE IF HasPriorityKey(Lower(lines[i])) /\ SearchNumber(lines[i], 1, "plain") # <<>>
    THEN LineValue(lines[i])
    ELSE KeywordScan_ReturnsZero(lines, i + 1)

\* for l in lines: ... if val > 0: return val   (0: the loop ends)
RECURSIVE KeywordScan(_, _)
KeywordScan(lines, i) ==
    IF i > Len(lines) THEN 0
    ELSE IF LineValue(lines[i]) > 0 THEN LineValue(lines[i])
    ELSE KeywordScan(lines, i + 1)

\* faulty variant: -1 instead of the sentinel 0.0 when no stage finds a value
extract_total_amount_NoSentinel(raw_text0) ==
    LET t == ReplaceChar(raw_text0, NBSP, " ")
        low == Lower(t)
        v1 == KeywordScan(NonBlankLines(t), 1)
        m == LastNumber(low, 1, "currency", <<>>)
        v2 == IF m = <<>> THEN 0 ELSE Milli(parse_number(SubSeq(low, m[1], m[2])))
        m2 == LastNumber(low, 1, "decimal", <<>>)
        v3 == IF m2 = <<>> THEN 0 ELSE Milli(parse_number(SubSeq(low, m2[1], m2[2])))
    IN  IF v1 > 0 THEN v1
        ELSE IF v2 > 0 THEN v2
        ELSE IF v3 > 0 THEN v3
        ELSE -1

\* faulty variant: Stage 2 takes the first currency match instead of the last
extract_total_amount_FirstMatch(raw_text0) ==
    LET t == ReplaceChar(raw_text0, NBSP, " ")
        low == Lower(t)
        v1 == KeywordScan(NonBlankLines(t), 1)
        m == SearchNumber(low, 1, "currency")
        v2 == IF m = <<>> THEN 0 ELSE Milli(parse_number(SubSeq(low, m[1], m[2])))
        m2 == LastNumber(low, 1, "decimal", <<>>)
        v3 == IF m2 = <<>> THEN 0 ELSE Milli(parse_number(SubSeq(low, m2[1], m2[2])))
    IN  IF v1 > 0 THEN v1
        ELSE IF v2 > 0 THEN v2
        ELSE IF v3 > 0 THEN v3
        ELSE 0

extract_total_amount(raw_text0) ==
    LET t == ReplaceChar(raw_text0, NBSP, " ")
        low == Lower(t)
        v1 == KeywordScan(NonBlankLines(t), 1)
        m == LastNumber(low, 1, "currency", <<>>)
        v2 == IF m = <<>> THEN 0 ELSE Milli(parse_number(SubSeq(low, m[1], m[2])))
        m2 == LastNumber(low, 1, "decimal", <<>>)
        v3 == IF m2 = <<>> THEN 0 ELSE Milli(parse_number(SubSeq(low, m2[1], m2[2])))
    IN  IF v1 > 0 THEN v1
        ELSE IF v2 > 0 THEN v2
        ELSE IF v3 > 0 THEN v3
        ELSE 0

TotalStep ==
    /\ pc = "total"
    /\ total' = extract_total_amount(raw_text)
    /\ pc' = "savings"
    /\ UNCHANGED <<raw_text, num, detected, vendor, prev, currency, savings>>
    /\ UNCHANGED store_vars

(***************************************************************************)
(* extract_total_amount on documents of up to MaxAmountLines lines.        *)
(***************************************************************************)
MaxAmountLines == 2

Am_subtotal == <<"S","u","b","t","o","t","a","l"," ","1","0","0">>
Am_grand_total == <<"G","r","a","n","d"," ","t","o","t","a","l"," ","1","5","0">>
Am_total_ttc == <<"T","o","t","a","l"," ","T","T","C",":"," ","1","nbsp","2","3","4",",","5","6"," ","€">>
Am_total_items == <<"T","o","t","a","l"," ","i","t","e","m","s",":"," ","0">>
Am_total_bare == <<"T","O","T","A","L">>
Am_42_eur == <<"4","2"," ","€">>
Am_ref == <<"R","e","f"," ","7",".","0","0","0",",","5","0">>
Am_none == <<"n","o"," ","n","u","m","b","e","r","s"," ","a","t"," ","a","l","l">>
Am_blank == <<" ">>
Am_net == <<"N","e","t"," ","à"," ","p","a","y","e","r"," ","1",".","2","3","4",".","5","6","7">>
Am_1234_usd == <<"1","2","3","4"," ","u","s","d">>
Am_amount_due == <<"A","m","o","u","n","t"," ","d","u","e",":"," ","9","9",".","5">>
Am_unparsed_eur == <<"1",".","2","3","4",".","5","6","7"," ","e","u","r"," ","7",",","5","0">>
Am_serial == <<"R","e","f"," ","1",".","2","3","4">>
Am_zero_eur == <<"0"," ","€">>

AmountLines ==
    {Am_subtotal, Am_grand_total, Am_total_ttc, Am_total_items, Am_total_bare, Am_42_eur,
     Am_ref, Am_none, Am_blank, Am_net,
     Am_1234_usd, Am_amount_due, Am_unparsed_eur, Am_serial, Am_zero_eur}

AmountDocs == {JoinLines(d) : d \in SeqsUpTo(AmountLines, MaxAmountLines)}

InitAmount ==
    /\ raw_text \in AmountDocs
    /\ pc = "total"
    /\ Idle

NextAmount == TotalStep

SpecAmount == InitAmount /\ [][NextAmount]_vars

\* the non-blank lines of the document, stripped, in document order
DocLines(text) == NonBlankLines(ReplaceChar(text, NBSP, " "))

\* a line qualifies: it holds a priority keyword and the first grouped-decimal
\* number on it parses to a strictly positive value
Qualifies(l) ==
    /\ \E n \in DOMAIN priority_keys : Contains(Lower(l), priority_keys[n])
    /\ SearchNumber(l, 1, "plain") # <<>>
    /\ parse_number(SubSeq(l, SearchNumber(l, 1, "plain")[1],
                              SearchNumber(l, 1, "plain")[2]))[1] > 0

FirstNumberValue(l) ==
    Milli(parse_number(SubSeq(l, SearchNumber(l, 1, "plain")[1],
                                 SearchNumber(l, 1, "plain")[2])))

\* C1: when some line qualifies, the result is the value of the first number
\* of the first qualifying line in document order, whatever the later lines
\* hold (not the last and not the largest qualifying line).
C1_FirstQualifyingLineWins ==
    TotalDone =>
        LET ls == DocLines(raw_text)
            q == {i \in DOMAIN ls : Qualifies(ls[i])}
        IN  /\ q # {} =>
                   \E i \in q : /\ \A j \in q : i <= j
                                /\ total = FirstNumberValue(ls[i])
            /\ raw_text = JoinLines(<<Am_subtotal, Am_grand_total>>) => total = 100000
            /\ raw_text = JoinLines(<<Am_total_items, Am_grand_total>>) => total = 150000
            /\ raw_text = JoinLines(<<Am_subtotal, Am_total_ttc>>) => total = 100000

\* an early, smaller "total" line wins over the later and larger one
C1_Witness ==
    /\ TotalDone
    /\ raw_text = JoinLines(<<Am_subtotal, Am_total_ttc>>)
    /\ total = 100000

(***************************************************************************)
(* parse_number and extract_total_amount side by side: what the parser     *)
(* makes of a string it cannot read, and what the stages make of that.     *)
(***************************************************************************)
InitParseAmount == InitParse \/ InitAmount

NextParseAmount == ParseStep \/ TotalStep

SpecParseAmount == InitParseAmount /\ [][NextParseAmount]_vars

\* the text Stages 2 and 3 search
StageText(text) == Lower(ReplaceChar(text, NBSP, " "))

\* the last match of the number pattern of the given kind in the text, <<>>
\* when there is none
LastCandidate(text, kind) == LastNumber(StageText(text), 1, kind, <<>>)

\* what that last match parses to, in thousandths; 0 when there is none
LastValue(text, kind) ==
    LET m == LastCandidate(text, kind)
    IN  IF m = <<>> THEN 0
        ELSE Milli(parse_number(SubSeq(StageText(text), m[1], m[2])))

\* a keyword line whose first number parses to 0
ZeroKeywordLine(l) ==
    /\ \E n \in DOMAIN priority_keys : Contains(Lower(l), priority_keys[n])
    /\ SearchNumber(l, 1, "plain") # <<>>
    /\ FirstNumberValue(l) = 0

\* C11: parse_number yields 0 for a string it cannot read (empty, garbage,
\* "1.234.567"), and no stage of extract_total_amount takes such a 0 for a
\* found total: the keyword scan goes on to the next line, Stage 1 hands over
\* to Stage 2 and Stage 2 to Stage 3, and the result is 0 only when no stage
\* found a positive value.
C11_UnparsedIsNotFound ==
    /\ pc = "parsed" =>
           /\ ~WellFormedNumber(raw_text) => num = ZeroValue
           /\ raw_text \in {<<>>, Ex_garbage, Ex_1p234p567} => num = ZeroValue
    /\ TotalDone =>
           LET ls == DocLines(raw_text)
               q == {i \in DOMAIN ls : Qualifies(ls[i])}
               z == {i \in DOMAIN ls : ZeroKeywordLine(ls[i])}
               v2 == LastValue(raw_text, "currency")
               v3 == LastValue(raw_text, "decimal")
           IN  /\ z # {} /\ q # {} =>
                      \E i \in q : /\ \A j \in q : i <= j
                                   /\ total = FirstNumberValue(ls[i])
               /\ z # {} /\ q = {} /\ v2 > 0 => total = v2
               /\ q = {} /\ LastCandidate(raw_text, "currency") # <<>> /\ v2 = 0
                      => total = v3
               /\ total = 0 => q = {} /\ v2 = 0 /\ v3 = 0
               /\ raw_text = JoinLines(<<Am_net, Am_grand_total>>) => total = 150000
               /\ raw_text = JoinLines(<<Am_net, Am_42_eur>>) => total = 42000
               /\ raw_text = Am_unparsed_eur => total = 7500

\* the keyword line "Net à payer 1.234.567" parses to 0 and the next line
\* supplies the total
C11_Witness ==
    /\ TotalDone
    /\ raw_text = JoinLines(<<Am_net, Am_grand_total>>)
    /\ ZeroKeywordLine(Am_net)
    /\ total = 150000

\* the text holds a candidate for some stage: a keyword line with a number,
\* a number followed by a currency, or a number with two decimals
HasCandidate(text) ==
    \/ \E i \in DOMAIN DocLines(text) :
           /\ \E n \in DOMAIN priority_keys :
                  Contains(Lower(DocLines(text)[i]), priority_keys[n])
           /\ SearchNumber(DocLines(text)[i], 1, "plain") # <<>>
    \/ LastCandidate(text, "currency") # <<>>
    \/ LastCandidate(text, "decimal") # <<>>

\* C12: for every text extract_total_amount returns a value, and the value
\* is never negative; it is the sentinel 0 when the text holds no number
\* candidate at all, as in "no numbers at all" or any text without a digit.
C12_TotalNonNegative ==
    TotalDone =>
        /\ total >= 0
        /\ ~HasCandidate(raw_text) => total = 0
        /\ (\A i \in DOMAIN raw_text : ~IsDigit(raw_text[i])) => total = 0
        /\ raw_text = Am_none => total = 0

C12_Witness ==
    /\ TotalDone
    /\ raw_text = Am_none
    /\ ~HasCandidate(raw_text)
    /\ total = 0

ExactlyTwoDecimals(s, m) == m[2] = Len(s) \/ ~IsDigit(s[m[2] + 1])

\* C17: Stage 3 decides only when Stages 1 and 2 returned nothing; its result
\* is the parsed value of the last number of the text written with exactly
\* two decimal digits, and a number without a two-digit fractional part, such
\* as "1.234", never supplies the result.
C17_TwoDecimalsOnly ==
    TotalDone =>
        LET ls == DocLines(raw_text)
            q == {i \in DOMAIN ls : Qualifies(ls[i])}
            v2 == LastValue(raw_text, "currency")
            m == LastCandidate(raw_text, "decimal")
        IN  /\ q = {} /\ v2 = 0 => total = LastValue(raw_text, "decimal")
            /\ q = {} /\ v2 = 0 /\ total > 0
                   => ExactlyTwoDecimals(StageText(raw_text), m)
            /\ raw_text = Am_ref => total = 7000500
            /\ raw_text = Am_serial => total = 0

(***************************************************************************)
(* preview: the four computations in the order of the handler.             *)
(***************************************************************************)
Ex_EndToEnd == <<"F","a","c","t","u","r","e","\n","F","o","u","r","n","i","s","s","e","u","r",":"," ","O","V","H","c","l","o","u","d","\n","T","o","t","a","l"," ","T","T","C",":"," ","1"," ","2","0","0",",","0","0"," ","€","\n">>

PreviewDocs ==
    {<<>>, Ex_EndToEnd} \cup VendorLines \cup AmountLines
    \cup {Concat(d) : d \in SeqsUpTo(CurrencyFrags, 1)}
    \cup {JoinLines(<<v, a>>) : v \in VendorLines, a \in AmountLines}

Init ==
    /\ raw_text \in PreviewDocs
    /\ pc = "vendor"
    /\ Idle

Next == VendorStep \/ CurrencyStep \/ TotalStep \/ SavingsStep

Spec == Init /\ [][Next]_vars

\* C13: on the empty string every extractor returns its sentinel: the vendor
\* is "UNKNOWN" (before and after normalization), the currency is UNKNOWN,
\* the total is 0.0 and the savings estimate is 0.0.
C13_EmptyInputSentinels ==
    raw_text = <<>> =>
        /\ VendorDone => detected = UNKNOWN /\ vendor = UNKNOWN
        /\ CurrencyDone => currency = "UNKNOWN"
        /\ TotalDone => total = 0
        /\ pc = "saved" => savings = 0

C13_Witness ==
    /\ raw_text = <<>>
    /\ pc = "saved"
    /\ vendor = UNKNOWN
    /\ currency = "UNKNOWN"
    /\ total = 0
    /\ savings = 0

\* C14: the text "Facture\nFournisseur: OVHcloud\nTotal TTC: 1 200,00 €\n"
\* yields vendor "OVHcloud", currency EUR, total 1200.00 and savings 180.00.
C14_EndToEndExample ==
    raw_text = Ex_EndToEnd =>
        /\ VendorDone => detected = Nm_OVHcloud /\ vendor = Nm_OVHcloud
        /\ CurrencyDone => currency = "EUR"
        /\ TotalDone => total = 1200000
        /\ pc = "saved" => savings = 18000

C14_Witness ==
    /\ raw_text = Ex_EndToEnd
    /\ pc = "saved"
    /\ vendor = Nm_OVHcloud
    /\ currency = "EUR"
    /\ total = 1200000
    /\ savings = 18000

(***************************************************************************)
(* The report store, the signed links and the payment state.  Time is in   *)
(* days.  A request handler is one step.                                   *)
(***************************************************************************)
MaxNow == 9

TtlDays == 7
ScanDays == 7

\* sign_doc: the first 16 hex digits of HMAC-SHA256(APP_SECRET, doc_id); a
\* value that only the holder of APP_SECRET can compute and that differs
\* from document to document
sign_doc(doc_id) == <<"hmac", doc_id>>

\* the query parameter t: absent, or somebody's link token
Tokens == {<<>>} \cup {sign_doc(d) : d \in DocIds}

\* faulty variant: any token that is present passes
check_sig_AnyToken(doc_id, t) == t # <<>>

check_sig(doc_id, t) ==
    IF t = <<>> THEN FALSE ELSE sign_doc(doc_id) = t

\* the record preview stores for a document
ReportOf(doc_id) == <<"report", doc_id>>

\* set_report / mark_paid on the two maps of state.json
set_report(r, doc_id, data) == [r EXCEPT ![doc_id] = <<data>>]

mark_paid(p, doc_id, payment_intent) == [p EXCEPT ![doc_id] = <<now, payment_intent>>]

\* is_paid_local on the map p at the current time
is_paid_local(p, doc_id) ==
    LET entry == p[doc_id]
    IN  IF entry = <<>> THEN FALSE
        ELSE IF entry[1] <= 0 THEN TRUE
        ELSE entry[1] >= now - TtlDays

\* the fields of a payment intent
IntentDoc(i) == intents[i][1]
IntentStatus(i) == intents[i][2]
IntentCreated(i) == intents[i][3]
IntentSucceededAt(i) == intents[i][4]

Succeeded(i) == intents[i] # <<>> /\ IntentStatus(i) = "succeeded"

\* the intents the Stripe scan of is_paid stops at: created in the last
\* seven days, metadata doc_id equal to doc_id, status succeeded
ScanHits(doc_id) ==
    {i \in IntentIds : /\ Succeeded(i)
                       /\ IntentCreated(i) >= now - ScanDays
                       /\ IntentDoc(i) = doc_id}

\* is_paid on the map p: the possible <<return value, map afterwards>>.  The
\* local entry decides when it is there and fresh; otherwise the scan marks
\* the document paid on a hit, and the answer is False without a hit or when
\* the Stripe call raises
is_paid(p, doc_id) ==
    IF is_paid_local(p, doc_id) THEN {<<TRUE, p>>}
    ELSE {<<TRUE, mark_paid(p, doc_id, i)>> : i \in ScanHits(doc_id)}
         \cup {<<FALSE, p>>}


\* get_report: <<record>>, <<>> for None
get_report(doc_id) == reports[doc_id]


Response(endpoint, doc_id, t, kind, body) == <<endpoint, doc_id, t, kind, body>>

NoBody == <<>>

\* preview: a new uuid4 as doc_id, set_report, and the page with the link
\* token sign_doc(doc_id)
PreviewStep ==
    \E d \in DocIds :
        /\ reports[d] = <<>>
        /\ reports' = set_report(reports, d, ReportOf(d))
        /\ resp' = Response("preview", d, sign_doc(d), "preview", NoBody)
        /\ UNCHANGED <<paid, intents, now, proc>>
        /\ UNCHANGED extraction_vars

\* POST /create-payment-intent
CreatePaymentIntentStep ==
    \E d \in DocIds, t \in Tokens :
        /\ IF ~check_sig(d, t)
           THEN /\ resp' = Response("create-payment-intent", d, t, "403", NoBody)
                /\ UNCHANGED intents
           ELSE IF get_report(d) = <<>>
           THEN /\ resp' = Response("create-payment-intent", d, t, "404", NoBody)
                /\ UNCHANGED intents
           ELSE \E i \in IntentIds :
                    /\ intents[i] = <<>>
                    /\ intents' = [intents EXCEPT
                                       ![i] = <<d, "requires_payment_method", now, 0>>]
                    /\ resp' = Response("create-payment-intent", d, t, "client_secret", NoBody)
        /\ UNCHANGED <<reports, paid, now, proc>>
        /\ UNCHANGED extraction_vars

\* the customer completes the payment in Stripe's payment element
CustomerPays ==
    \E i \in IntentIds :
        /\ intents[i] # <<>>
        /\ IntentStatus(i) # "succeeded"
        /\ intents' = [intents EXCEPT ![i] = <<IntentDoc(i), "succeeded", IntentCreated(i), now>>]
        /\ resp' = <<>>
        /\ UNCHANGED <<reports, paid, now, proc>>
        /\ UNCHANGED extraction_vars

\* POST /stripe/webhook: a request whose signature does not verify is
\* refused; Stripe sends payment_intent.succeeded on the day the payment
\* succeeds
StripeWebhookStep ==
    /\ \/ /\ resp' = Response("webhook", "", <<>>, "400", NoBody)
          /\ UNCHANGED paid
       \/ \E i \in IntentIds :
              /\ Succeeded(i)
              /\ IntentSucceededAt(i) = now
              /\ paid' = mark_paid(paid, IntentDoc(i), i)
              /\ resp' = Response("webhook", IntentDoc(i), <<>>, "received", NoBody)
    /\ UNCHANGED <<reports, intents, now, proc>>
    /\ UNCHANGED extraction_vars

\* the map after the first half of success: with a payment_intent parameter
\* (pi = <<id>>, <<>> without it) whose intent has succeeded, mark_paid for
\* the document of the link; nothing when retrieve raises (unknown id,
\* Stripe unreachable)
AfterRetrieve(p, doc_id, pi) ==
    {p} \cup (IF pi # <<>> /\ Succeeded(pi[1])
              THEN {mark_paid(p, doc_id, pi[1])}
              ELSE {})

\* GET /success/{doc_id}?t=..&payment_intent=..
SuccessStep ==
    \E d \in DocIds, t \in Tokens, pi \in {<<>>} \cup {<<i>> : i \in IntentIds} :
        /\ IF ~check_sig(d, t)
           THEN /\ resp' = Response("success", d, t, "invalid", NoBody)
                /\ UNCHANGED paid
           ELSE \E p1 \in AfterRetrieve(paid, d, pi) :
                    \E o \in is_paid(p1, d) :
                        /\ paid' = o[2]
                        /\ resp' = Response("success", d, t,
                                            IF o[1] THEN "confirmed" ELSE "pending", NoBody)
        /\ UNCHANGED <<reports, intents, now, proc>>
        /\ UNCHANGED extraction_vars

\* the three checks pay, full and print_view share: the responses possible
\* and the paid map afterwards, as <<kind, body, map>>; unlocked is the kind
\* of the response when is_paid holds, locked when it does not
Gate(doc_id, t, unlocked, locked, unlockedBody) ==
    IF ~check_sig(doc_id, t) THEN {<<"invalid", NoBody, paid>>}
    ELSE IF get_report(doc_id) = <<>> THEN {<<"not_found", NoBody, paid>>}
    ELSE {IF o[1] THEN <<unlocked, unlockedBody, o[2]>> ELSE <<locked, NoBody, o[2]>> :
              o \in is_paid(paid, doc_id)}

\* GET /pay/{doc_id}
PayStep ==
    \E d \in DocIds, t \in Tokens :
        \E g \in Gate(d, t, "redirect_to_full", "payment_page", NoBody) :
            /\ resp' = Response("pay", d, t, g[1], g[2])
            /\ paid' = g[3]
            /\ UNCHANGED <<reports, intents, now, proc>>
            /\ UNCHANGED extraction_vars

\* GET /full/{doc_id}
FullStep ==
    \E d \in DocIds, t \in Tokens :
        \E g \in Gate(d, t, "report", "payment_required", get_report(d)) :
            /\ resp' = Response("full", d, t, g[1], g[2])
            /\ paid' = g[3]
            /\ UNCHANGED <<reports, intents, now, proc>>
            /\ UNCHANGED extraction_vars

\* GET /print/{doc_id}
PrintViewStep ==
    \E d \in DocIds, t \in Tokens :
        \E g \in Gate(d, t, "report", "payment_required", get_report(d)) :
            /\ resp' = Response("print", d, t, g[1], g[2])
            /\ paid' = g[3]
            /\ UNCHANGED <<reports, intents, now, proc>>
            /\ UNCHANGED extraction_vars

\* a day passes
Tick ==
    /\ now < MaxNow
    /\ now' = now + 1
    /\ resp' = <<>>
    /\ UNCHANGED <<reports, paid, intents, proc>>
    /\ UNCHANGED extraction_vars

InitPay ==
    /\ raw_text = NoText
    /\ pc = "serve"
    /\ Idle

NextPay ==
    \/ PreviewStep
    \/ CreatePaymentIntentStep
    \/ CustomerPays
    \/ StripeWebhookStep
    \/ SuccessStep
    \/ PayStep
    \/ FullStep
    \/ PrintViewStep
    \/ Tick

SpecPay == InitPay /\ [][NextPay]_vars


\* C21: a document is marked paid only on the strength of a succeeded
\* payment intent created for that same document: whenever the paid map
\* holds an entry for doc_id, some payment intent with metadata doc_id equal
\* to doc_id has succeeded, so a payment for document A never unlocks
\* document B.
C21_PaidOnlyForOwnIntent ==
    \A d \in DocIds :
        paid[d] # <<>> => \E i \in IntentIds : Succeeded(i) /\ IntentDoc(i) = d


ServedBy(r, endpoints) == r # <<>> /\ r[1] \in endpoints

\* C22: /full and /print answer with the stored report of doc_id exactly
\* when t is the signature of doc_id, a report is stored for doc_id and
\* is_paid(doc_id) holds (the document has a fresh paid entry when the
\* response is made); every other response is invalid-link, not-found or
\* payment-required and carries no report data; and neither request changes
\* the stored reports.
C22_ReportOnlyWhenUnlocked ==
    /\ [](ServedBy(resp, {"full", "print"}) =>
            LET d == resp[2]
                t == resp[3]
            IN  /\ resp[4] = "report" <=>
                       /\ t = sign_doc(d)
                       /\ reports[d] # <<>>
                       /\ is_paid_local(paid, d)
                /\ resp[4] = "report" => resp[5] = <<ReportOf(d)>> /\ resp[5] = reports[d]
                /\ resp[4] # "report" =>
                       /\ resp[4] \in {"invalid", "not_found", "payment_required"}
                       /\ resp[5] = <<>>)
    /\ [][ServedBy(resp', {"full", "print"}) => reports' = reports]_vars

\* /full serves the report of A to the holder of A's link after payment
C22_Witness ==
    /\ ServedBy(resp, {"full"})
    /\ resp[2] = "A"
    /\ resp[3] = sign_doc("A")
    /\ resp[4] = "report"
    /\ resp[5] = <<ReportOf("A")>>
    /\ is_paid_local(paid, "A")


(***************************************************************************)
(* set_report and mark_paid as the threads of the server run them: each    *)
(* call is load_state, a change to the loaded copy, save_state, with no    *)
(* lock around the three.  reports and paid are the content of state.json. *)
(***************************************************************************)
MaxCalls == 2

Threads == {"t1", "t2"}

\* each thread works on a document of its own
ThreadDoc(th) == IF th = "t1" THEN "A" ELSE "B"

StoreOps == {"set_report", "mark_paid"}

NotInCall == [phase |-> "idle", op |-> "none", r |-> <<>>, p |-> <<>>]

\* state.json exists and holds the default state
InitStore ==
    /\ raw_text = NoText
    /\ num = NoValue
    /\ detected = NoText
    /\ vendor = NoText
    /\ prev = NoText
    /\ currency = "unset"
    /\ total = 0
    /\ savings = 0
    /\ pc = "store"
    /\ reports = [d \in DocIds |-> <<>>]
    /\ paid = [d \in DocIds |-> <<>>]
    /\ intents = [i \in IntentIds |-> <<>>]
    /\ now = 1
    /\ resp = <<>>
    /\ proc = [th \in Threads |-> [call |-> NotInCall, calls |-> 0, completed |-> {}]]

\* state = load_state(): the thread reads the file into a copy of its own
LoadStateStep ==
    \E th \in Threads, op \in StoreOps :
        /\ proc[th].call.phase = "idle"
        /\ proc[th].calls < MaxCalls
        /\ proc' = [proc EXCEPT ![th].call =
                        [phase |-> "loaded", op |-> op, r |-> reports, p |-> paid]]
        /\ UNCHANGED <<reports, paid, intents, now, resp>>
        /\ UNCHANGED extraction_vars

\* state[...][doc_id] = ...; save_state(state): the changed copy replaces the
\* file, and the call returns
SaveStateStep ==
    \E th \in Threads :
        LET c == proc[th].call
            d == ThreadDoc(th)
        IN  /\ c.phase = "loaded"
            /\ reports' = IF c.op = "set_report" THEN set_report(c.r, d, ReportOf(d)) ELSE c.r
            /\ paid' = IF c.op = "mark_paid" THEN mark_paid(c.p, d, "") ELSE c.p
            /\ proc' = [proc EXCEPT ![th] =
                            [call |-> NotInCall,
                             calls |-> proc[th].calls + 1,
                             completed |-> proc[th].completed \cup {<<c.op, d>>}]]
            /\ UNCHANGED <<intents, now, resp>>
            /\ UNCHANGED extraction_vars

NextStore == LoadStateStep \/ SaveStateStep

SpecStore == InitStore /\ [][NextStore]_vars

\* the write <<operation, doc_id>> is in the file
InFile(w) ==
    IF w[1] = "set_report" THEN reports[w[2]] # <<>> ELSE paid[w[2]] # <<>>

\* C23: no completed write is lost: every report and every paid mark whose
\* set_report or mark_paid call has returned is in the stored state,
\* whatever the interleaving of the calls of the other threads on other
\* doc_ids.
C23_NoLostWrite ==
    proc # <<>> =>
        \A th \in Threads : \A w \in proc[th].completed : InFile(w)


\* the payments made for the document
PaymentsFor(d) == {i \in IntentIds : Succeeded(i) /\ IntentDoc(i) = d}

\* C24: paid access expires: once more than 7 days have passed since the
\* payment of a document succeeded, is_paid(doc_id) is false, whatever
\* requests were served in between.
C24_PaidAccessExpires ==
    \A d \in DocIds :
        /\ PaymentsFor(d) # {}
        /\ \A i \in PaymentsFor(d) : now > IntentSucceededAt(i) + 7
        => \A o \in is_paid(paid, d) : o[1] = FALSE

====
